---- MODULE Spec2Model ----
(***************************************************************************)
(* The audio response pipeline of the chat front-end (src/src/App.jsx,     *)
(* the variant that starts at line 1004): text normalisation, sentence     *)
(* segmentation, chunk grouping, the synthesis cache, the playback queue   *)
(* on the single <audio> element, the per-answer audio ledger and the      *)
(* merged replay clip.                                                     *)
(*                                                                         *)
(* Text is a sequence of one-character strings.  Asynchronous functions    *)
(* are cut at the awaits that really suspend (network response, play()     *)
(* promise, decodeAudioData); what runs between two such awaits is one     *)
(* step, as on the JavaScript event loop.                                  *)
(***************************************************************************)
EXTENDS Integers, Sequences, FiniteSets, TLC

(***************************************************************************)
(* Character classes used by the regular expressions of the source.        *)
(***************************************************************************)
Digits == {"0","1","2","3","4","5","6","7","8","9"}
UpperLetters == {"A","B","C","D","E","F","G","H","I","J","K","L","M","N","O","P","Q","R","S","T","U","V","W","X","Y","Z"}
LowerLetters == {"a","b","c","d","e","f","g","h","i","j","k","l","m","n","o","p","q","r","s","t","u","v","w","x","y","z"}
\* \p{L} and [a-zA-Z] restricted to the letters the model's texts use
Letters == UpperLetters \cup LowerLetters
\* \s : space, line feed, tab
Spaces == {" ", "\n", "\t"}
\* the line terminators after which ^ matches under the m flag
LineTerminators == {"\n"}
\* one-character strings outside ASCII are written by name: each is one character
EuroSign == "<euro>"
PoundSign == "<pound>"
EnDash == "<en-dash>"
EmDash == "<em-dash>"
Bullet == "<bullet>"
Sentinel == "<section-sign>"
CurrencySigns == {"$", EuroSign, PoundSign}
Dashes == {EnDash, EmDash}
Terminators == {".", "!", "?"}
Openers == {"\"", "'", "(", "["}

ABBR == <<
    <<"U",".","S",".">>, <<"U",".","K",".">>, <<"e",".","g",".">>,
    <<"i",".","e",".">>, <<"e","t","c",".">>, <<"v","s",".">>,
    <<"M","r",".">>, <<"M","r","s",".">>, <<"M","s",".">>,
    <<"D","r",".">>, <<"P","r","o","f",".">>, <<"I","n","c",".">>,
    <<"L","t","d",".">>, <<"J","r",".">>, <<"S","r",".">>,
    <<"S","t",".">>, <<"N","o",".">>, <<"J","a","n",".">>,
    <<"F","e","b",".">>, <<"M","a","r",".">>, <<"A","p","r",".">>,
    <<"J","u","n",".">>, <<"J","u","l",".">>, <<"A","u","g",".">>,
    <<"S","e","p",".">>, <<"S","e","p","t",".">>, <<"O","c","t",".">>,
    <<"N","o","v",".">>, <<"D","e","c",".">>
>>

\* a call whose arguments are evaluated once, before the body runs, as in
\* JavaScript: CallN(F, a, ...) is F(a, ...)
Call1(F(_), a) == CHOOSE r \in {F(x) : x \in {a}} : TRUE
Call2(F(_, _), a, b) == CHOOSE r \in {F(x, y) : x \in {a}, y \in {b}} : TRUE
Call4(F(_, _, _, _), a, b, c, d) ==
    CHOOSE r \in {F(x, y, z, w) : x \in {a}, y \in {b}, z \in {c}, w \in {d}} : TRUE

MinOf(S) == CHOOSE q \in S : \A x \in S : q <= x
MaxOf(S) == CHOOSE q \in S : \A x \in S : x <= q

\* where a scan that starts at p finds its first match: the leftmost position
\* q >= p of s at which Hit(s, q) holds, 0 if there is none
FirstFrom(s, p, Hit(_, _)) ==
    Call1(LAMBDA S : IF S = {} THEN 0 ELSE MinOf(S), {q \in p..Len(s) : Hit(s, q)})

\* s has the literal pat at position p
MatchesAt(s, p, pat) ==
    /\ p + Len(pat) - 1 <= Len(s)
    /\ SubSeq(s, p, p + Len(pat) - 1) = pat

\* first position >= p whose character is outside class (Len(s)+1 if none)
SpanEnd(s, p, class) ==
    IF p > Len(s) THEN p
    ELSE Call1(LAMBDA S : IF S = {} THEN Len(s) + 1 ELSE MinOf(S),
               {q \in p..Len(s) : s[q] \notin class})

\* String.prototype.replaceAll with a literal pattern, scanning from p
RECURSIVE replaceAllFrom(_, _, _, _)
replaceAllFrom(s, p, pat, rep) ==
    Call1(LAMBDA q :
            IF q = 0 THEN SubSeq(s, p, Len(s))
            ELSE SubSeq(s, p, q - 1) \o rep
                 \o Call4(replaceAllFrom, s, q + Len(pat), pat, rep),
          FirstFrom(s, p, LAMBDA t, x : MatchesAt(t, x, pat)))

\* a.replace(/\./g, Sentinel)
DotsToSentinel(a) == [i \in 1..Len(a) |-> IF a[i] = "." THEN Sentinel ELSE a[i]]

\* the loop of protectAbbrDots from abbreviation k on
RECURSIVE protectFrom(_, _)
protectFrom(s, k) ==
    IF k > Len(ABBR) THEN s
    ELSE Call2(protectFrom,
               Call4(replaceAllFrom, s, 1, ABBR[k], DotsToSentinel(ABBR[k])), k + 1)

protectAbbrDots(s) == Call2(protectFrom, s, 1)

RestoreDots(s) == [i \in 1..Len(s) |-> IF s[i] = Sentinel THEN "." ELSE s[i]]
restoreAbbrDots(s) == Call1(RestoreDots, s)

\* String.prototype.trim: from the first to the last character that is no space
TrimSpan(s) ==
    Call1(LAMBDA S : IF S = {} THEN <<>> ELSE SubSeq(s, MinOf(S), MaxOf(S)),
          {q \in 1..Len(s) : s[q] \notin Spaces})
Trim(s) == Call1(TrimSpan, s)

\* s.replace(/\s+/g, " "), scanning from p
RECURSIVE CollapseSpaces(_, _)
CollapseSpaces(s, p) ==
    Call1(LAMBDA q :
            IF q = 0 THEN SubSeq(s, p, Len(s))
            ELSE SubSeq(s, p, q - 1) \o <<" ">>
                 \o Call2(CollapseSpaces, s, SpanEnd(s, q, Spaces)),
          FirstFrom(s, p, LAMBDA t, x : t[x] \in Spaces))

\* the split pattern (?<=[.!?])\s+(?=["'(\[]?[A-Z0-9]) matches the spaces p..e-1
BoundaryEnd(s, p, e) ==
    /\ p > 1 /\ p <= Len(s)
    /\ s[p] \in Spaces
    /\ s[p - 1] \in Terminators
    /\ e <= Len(s)
    /\ \/ s[e] \in UpperLetters \cup Digits
       \/ s[e] \in Openers /\ e + 1 <= Len(s) /\ s[e + 1] \in UpperLetters \cup Digits
BoundaryAt(s, p) == Call1(LAMBDA e : BoundaryEnd(s, p, e), SpanEnd(s, p, Spaces))

\* String.prototype.split on that pattern, scanning from p
RECURSIVE SplitFrom(_, _)
SplitFrom(s, p) ==
    Call1(LAMBDA q :
            IF q = 0 THEN <<SubSeq(s, p, Len(s))>>
            ELSE <<SubSeq(s, p, q - 1)>> \o Call2(SplitFrom, s, SpanEnd(s, q, Spaces)),
          FirstFrom(s, p, BoundaryAt))

splitIntoSentencesSmart(text) ==
    IF text = <<>> THEN <<>>
    ELSE LET mapped(parts) == [i \in 1..Len(parts) |-> Trim(restoreAbbrDots(parts[i]))]
             kept(done) == SelectSeq(done, LAMBDA x : x # <<>>)
         IN Call1(kept, Call1(mapped,
               Call2(SplitFrom, Trim(Call2(CollapseSpaces, protectAbbrDots(text), 1)), 1)))

\* Array.prototype.join(" ")
RECURSIVE JoinSpace(_)
JoinSpace(ss) ==
    IF ss = <<>> THEN <<>>
    ELSE IF Len(ss) = 1 THEN ss[1]
    ELSE ss[1] \o <<" ">> \o Call1(JoinSpace, Tail(ss))

\* a faulty cut test: the minimum is not looked at
CutsIgnoringMin(n, willLen, maxChars, minSent, maxSent) ==
    n >= maxSent \/ willLen > maxChars

\* a faulty cut test: the ceiling is not looked at
CutsIgnoringMax(n, willLen, maxChars, minSent, maxSent) ==
    n >= minSent /\ willLen > maxChars

\* line 1051: cur.length >= maxSent || (cur.length >= minSent && willLen > maxChars)
Cuts(n, willLen, maxChars, minSent, maxSent) ==
    n >= maxSent \/ (n >= minSent /\ willLen > maxChars)

\* a faulty cut: the sentence that did not fit is lost
startChunkEmpty(s) == <<>>

\* line 1053: cur = [s]
startChunk(s) == <<s>>

\* the loop of groupSentencesToChunks from sentence k on; cur, curLen as in the source
RECURSIVE groupFrom(_, _, _, _, _, _, _)
groupFrom(sentences, k, cur, curLen, maxChars, minSent, maxSent) ==
    IF k > Len(sentences)
    THEN IF Len(cur) > 0 THEN <<JoinSpace(cur)>> ELSE <<>>
    ELSE LET s == sentences[k]
             willLen == curLen + (IF curLen # 0 THEN 1 ELSE 0) + Len(s)
             rest(c, l) == groupFrom(sentences, k + 1, c, l, maxChars, minSent, maxSent)
         IN IF Cuts(Len(cur), willLen, maxChars, minSent, maxSent)
            THEN <<JoinSpace(cur)>> \o Call2(rest, startChunk(s), Len(s))
            ELSE Call2(rest, Append(cur, s), willLen)

groupSentencesToChunks(sentences, maxChars, minSent, maxSent) ==
    LET loop(ss) == groupFrom(ss, 1, <<>>, 0, maxChars, minSent, maxSent)
    IN Call1(loop, sentences)

(***************************************************************************)
(* sanitizeForTTS: each rule is one global regular-expression replace,     *)
(* scanned left to right; RuleNEnd(s, p) is the position after the match   *)
(* that starts at p (0 when the pattern does not match at p), RuleNFrom    *)
(* is the replace scanning from p.                                         *)
(***************************************************************************)
Str_to == <<" ", "t", "o", " ">>
Str_negative == <<"n", "e", "g", "a", "t", "i", "v", "e", " ">>
Str_percent == <<" ", "p", "e", "r", "c", "e", "n", "t">>

\* \d+(?:\.\d+)? matched greedily at p: the position after it, 0 if no digit at p
NumEnd(s, p) ==
    IF p > Len(s) \/ s[p] \notin Digits THEN 0
    ELSE Call1(LAMBDA e1 :
                 IF e1 + 1 <= Len(s) /\ s[e1] = "." /\ s[e1 + 1] \in Digits
                 THEN SpanEnd(s, e1 + 1, Digits)
                 ELSE e1,
               SpanEnd(s, p, Digits))

\* 1) /^\s*-\s+/gm  ->  bullet, space
Rule1End(s, p) ==
    Call1(LAMBDA d :
            IF /\ (p = 1 \/ s[p - 1] \in LineTerminators)
               /\ d + 1 <= Len(s) /\ s[d] = "-" /\ s[d + 1] \in Spaces
            THEN SpanEnd(s, d + 1, Spaces)
            ELSE 0,
          SpanEnd(s, p, Spaces))

RECURSIVE Rule1From(_, _)
Rule1From(s, p) ==
    Call1(LAMBDA q :
            IF q = 0 THEN SubSeq(s, p, Len(s))
            ELSE SubSeq(s, p, q - 1) \o <<Bullet, " ">>
                 \o Call2(Rule1From, s, Rule1End(s, q)),
          FirstFrom(s, p, LAMBDA t, x : Rule1End(t, x) # 0))

\* 2) /(\d+(?:\.\d+)?)\s*-\s*(\d+(?:\.\d+)?)(?=\s*[%a-zA-Z]|[^\d]|$)/g -> "$1 to $2"
\* (after the greedy second number the next character is never a digit, so the
\* lookahead holds and no shorter match is ever tried)
Rule2Hyphen(s, p) ==
    Call1(LAMBDA n : IF n = 0 THEN 0 ELSE SpanEnd(s, n, Spaces), NumEnd(s, p))
Rule2Second(s, p) ==
    Call1(LAMBDA h :
            IF h # 0 /\ h <= Len(s) /\ s[h] = "-" THEN SpanEnd(s, h + 1, Spaces) ELSE 0,
          Rule2Hyphen(s, p))
Rule2End(s, p) ==
    Call1(LAMBDA n2 : IF n2 = 0 THEN 0 ELSE NumEnd(s, n2), Rule2Second(s, p))

RECURSIVE Rule2From(_, _)
Rule2From(s, p) ==
    Call1(LAMBDA q :
            IF q = 0 THEN SubSeq(s, p, Len(s))
            ELSE SubSeq(s, p, q - 1)
                 \o SubSeq(s, q, NumEnd(s, q) - 1) \o Str_to
                 \o SubSeq(s, Rule2Second(s, q), Rule2End(s, q) - 1)
                 \o Call2(Rule2From, s, Rule2End(s, q)),
          FirstFrom(s, p, LAMBDA t, x : Rule2End(t, x) # 0))

\* 3) /(\p{L})-(?=\p{L})/gu -> "$1 "
Rule3At(s, p) ==
    /\ p + 2 <= Len(s)
    /\ s[p] \in Letters /\ s[p + 1] = "-" /\ s[p + 2] \in Letters

RECURSIVE Rule3From(_, _)
Rule3From(s, p) ==
    Call1(LAMBDA q :
            IF q = 0 THEN SubSeq(s, p, Len(s))
            ELSE SubSeq(s, p, q - 1) \o <<s[q], " ">> \o Call2(Rule3From, s, q + 2),
          FirstFrom(s, p, Rule3At))

\* \d+(?:\.\d+)?(?![\d-]) at q: the greedy number when what follows is neither a
\* digit nor a hyphen; otherwise the regex backtracks, and the only shorter
\* number that can pass is the integer part of a number with a fraction
Rule4Pick(s, full, int) ==
    IF full = 0 THEN 0
    ELSE IF full > Len(s) \/ s[full] \notin (Digits \cup {"-"}) THEN full
    ELSE IF full # int THEN int
    ELSE 0
Rule4NumEnd(s, q) ==
    Call2(LAMBDA full, int : Rule4Pick(s, full, int), NumEnd(s, q), SpanEnd(s, q, Digits))

\* 4) /(^|[^\d])-(\d+(?:\.\d+)?)(?![\d-])/g -> "$1negative $2"
\* the position of the hyphen of the match that starts at p (0: no match at p)
Rule4Hyphen(s, p) ==
    IF p = 1 /\ s[1] = "-" /\ Rule4NumEnd(s, 2) # 0 THEN 1
    ELSE IF /\ p + 1 <= Len(s) /\ s[p] \notin Digits /\ s[p + 1] = "-"
            /\ Rule4NumEnd(s, p + 2) # 0
         THEN p + 1
         ELSE 0

\* the match that starts at q has its hyphen at h
Rule4Replace(s, q, h) ==
    SubSeq(s, q, h - 1) \o Str_negative \o SubSeq(s, h + 1, Rule4NumEnd(s, h + 1) - 1)

RECURSIVE Rule4From(_, _)
Rule4From(s, p) ==
    Call1(LAMBDA q :
            IF q = 0 THEN SubSeq(s, p, Len(s))
            ELSE Call1(LAMBDA h :
                         SubSeq(s, p, q - 1) \o Rule4Replace(s, q, h)
                         \o Call2(Rule4From, s, Rule4NumEnd(s, h + 1)),
                       Rule4Hyphen(s, q)),
          FirstFrom(s, p, LAMBDA t, x : Rule4Hyphen(t, x) # 0))

\* 4.1) /([$<euro><pound>])-(\d+(?:[\d,\.])*)/g -> "negative $1$2"
Rule41End(s, p) ==
    IF /\ p + 2 <= Len(s)
       /\ s[p] \in CurrencySigns /\ s[p + 1] = "-" /\ s[p + 2] \in Digits
    THEN SpanEnd(s, p + 2, Digits \cup {",", "."})
    ELSE 0

RECURSIVE Rule41From(_, _)
Rule41From(s, p) ==
    Call1(LAMBDA q :
            IF q = 0 THEN SubSeq(s, p, Len(s))
            ELSE SubSeq(s, p, q - 1)
                 \o Str_negative \o <<s[q]>> \o SubSeq(s, q + 2, Rule41End(s, q) - 1)
                 \o Call2(Rule41From, s, Rule41End(s, q)),
          FirstFrom(s, p, LAMBDA t, x : Rule41End(t, x) # 0))

\* 4.2) /-(\d+(?:\.\d+)?)\s*%/g -> "negative $1 percent"
\* the position of the percent sign of the match that starts at p (0: none)
Rule42Percent(s, p) ==
    IF s[p] = "-" /\ NumEnd(s, p + 1) # 0
    THEN Call1(LAMBDA w : IF w <= Len(s) /\ s[w] = "%" THEN w ELSE 0,
               SpanEnd(s, NumEnd(s, p + 1), Spaces))
    ELSE 0

RECURSIVE Rule42From(_, _)
Rule42From(s, p) ==
    Call1(LAMBDA q :
            IF q = 0 THEN SubSeq(s, p, Len(s))
            ELSE SubSeq(s, p, q - 1)
                 \o Str_negative \o SubSeq(s, q + 1, NumEnd(s, q + 1) - 1) \o Str_percent
                 \o Call2(Rule42From, s, Rule42Percent(s, q) + 1),
          FirstFrom(s, p, LAMBDA t, x : Rule42Percent(t, x) # 0))

\* 5) /[<en-dash><em-dash>]/g -> ", "
RECURSIVE Rule5From(_, _)
Rule5From(s, p) ==
    Call1(LAMBDA q :
            IF q = 0 THEN SubSeq(s, p, Len(s))
            ELSE SubSeq(s, p, q - 1) \o <<",", " ">> \o Call2(Rule5From, s, q + 1),
          FirstFrom(s, p, LAMBDA t, x : t[x] \in Dashes))

\* 6) /\s{2,}/g -> " "   (a single whitespace character is kept as it is)
Rule6At(s, p) == s[p] \in Spaces /\ SpanEnd(s, p, Spaces) >= p + 2

RECURSIVE Rule6From(_, _)
Rule6From(s, p) ==
    Call1(LAMBDA q :
            IF q = 0 THEN SubSeq(s, p, Len(s))
            ELSE SubSeq(s, p, q - 1) \o <<" ">>
                 \o Call2(Rule6From, s, SpanEnd(s, q, Spaces)),
          FirstFrom(s, p, Rule6At))

sanitizeForTTS(input) ==
    IF input = <<>> THEN <<>>
    ELSE Trim(Call2(Rule6From,
         Call2(Rule5From,
         Call2(Rule42From,
         Call2(Rule41From,
         Call2(Rule4From,
         Call2(Rule3From,
         Call2(Rule2From,
         Call2(Rule1From, input, 1), 1), 1), 1), 1), 1), 1), 1))


(***************************************************************************)
(* The pipeline: bounds and the texts the model runs on.                   *)
(***************************************************************************)
\* speakTextSmart invocations (progressive or replay) in one behaviour
MaxRuns == 3
\* messages sendTextMessage may add to the transcript
MaxMsgs == 3
\* runChat requests awaiting the chat backend at the same time
MaxPending == 1

\* groupSentencesToChunks(sentences, { maxChars: 400, minSent: 2, maxSent: 3 })
MaxChars == 400
MinSent == 2
MaxSent == 3

RunIds == 1..MaxRuns
NoRun == 0
NoUrl == 0

\* the answers the chat backend returns: four sentences (two chunks), and one
\* chunk whose normalised text equals the normalised first chunk of AnswerA
AnswerA == <<"A", "-", "b", ".", " ", "C", ".", " ", "D", ".", " ", "E", ".">>
AnswerB == <<"A", " ", "b", ".", " ", "C", ".", " ", "D", ".">>
Answers == {AnswerA, AnswerB}
UserText == <<"q">>
ThinkingText == <<"T", "h", "i", "n", "k", "i", "n", "g", ".", ".", ".">>
MergeErrorText == <<"R", "e", "p", "l", "a", "y", " ", "m", "e", "r", "g", "e", " ", "e", "r", "r", "o", "r", ":", " ", "e">>
Texts == Answers \cup {MergeErrorText}

\* both callers pass "en"
Lang == <<"e", "n">>
DefaultMime == "audio/mpeg"
WavMime == "audio/wav"
\* resp.headers.get("content-type"): the proxy (src/src/server.js line 191) always
\* declares one; the endpoint of the model declares the same type for every
\* answer (the merge of line 1249 assumes uniform segments)
ContentTypes == {WavMime}

\* lines 1214-1215: the chunks of each text
ChunkTable(texts) ==
    [t \in texts |->
        groupSentencesToChunks(splitIntoSentencesSmart(t), MaxChars, MinSent, MaxSent)]

\* line 1166: safe = sanitizeForTTS(chunkText), for each chunk of each text
SafeTable(chunks) ==
    [t \in DOMAIN chunks |-> [i \in 1..Len(chunks[t]) |-> sanitizeForTTS(chunks[t][i])]]

\* line 1167: cacheKey = `${lang}::${safe}`
cacheKey(lang, safe) == lang \o <<":", ":">> \o safe


(***************************************************************************)
(* State.                                                                  *)
(***************************************************************************)
VARIABLES
    messages,               \* useState([]): the transcript
    status,                 \* useState("Ready")
    pending,                \* runChat calls awaiting the chat backend
    ttsCacheRef,            \* line 1108: Map text -> url, filled only by speakText
    ttsObjCacheRef,         \* line 1151: Map cacheKey -> { url, blob, ab, mime }
    ttsQueueRef,            \* line 1153: the playback queue, urls only
    currentAnswerAudioRef,  \* line 1155: { key, items, mergedUrl }
    audio,                  \* the <audio> element behind audioRef
    urls,                   \* urls[u]: the blob behind the object URL u
    revoked,                \* object URLs passed to URL.revokeObjectURL
    runs,                   \* the speakTextSmart invocations
    tables                  \* what the pure text functions give for the texts of
                            \* the model, computed once: chunks[t], safe[t][i]

vars == <<messages, status, pending, ttsCacheRef, ttsObjCacheRef, ttsQueueRef,
          currentAnswerAudioRef, audio, urls, revoked, runs, tables>>

\* chunks of text t (line 1215), speech text of its chunk i (line 1166), its key
Chunks(t) == tables.chunks[t]
Safe(t, i) == tables.safe[t][i]
KeyOf(t, i) == cacheKey(Lang, Safe(t, i))
Keys == UNION {{KeyOf(t, i) : i \in 1..Len(Chunks(t))} : t \in Texts}
TextTables(chunks) == [chunks |-> chunks, safe |-> SafeTable(chunks)]

\* an ArrayBuffer is known by the text it is the speech of and by the response
\* that carried it (responses are numbered like the urls made from them)
NoAb == [text |-> <<>>, id |-> 0]
\* { url, blob, ab, mime }: the blob is urls[url]
NoObj == [url |-> NoUrl, ab |-> NoAb, mime |-> ""]
EmptyMap == [k \in {} |-> NoObj]

\* a speakTextSmart invocation that has not been made yet.  pc is the await the
\* invocation is suspended at; i, obj and items are its locals; replay is the
\* option it was called with and branch the branch it took.  after, hit, reqLog
\* and enqLog record what the invocation saw and did:
\*   after   the progressive loop of an earlier invocation for the same text had
\*           finished when this one was made
\*   hit     an earlier getTtsAudioObj call with the key of the current call had
\*           resolved before the current call was made
\*   reqLog  the chunks getTtsAudioObj was called for, in call order
\*   enqLog  the speech text of each audio enqueued, in enqueue order
IdleRun ==
    [pc |-> "idle", text |-> <<>>, replay |-> FALSE, branch |-> "none", i |-> 0,
     obj |-> NoObj, items |-> <<>>, live |-> FALSE,
     after |-> FALSE, hit |-> FALSE, reqLog |-> <<>>, enqLog |-> <<>>]

\* the pipeline as construction leaves it
pipeline == <<messages, status, pending, ttsCacheRef, ttsObjCacheRef, ttsQueueRef,
              currentAnswerAudioRef, audio, urls, revoked, runs>>
AtRest ==
    /\ messages = <<>>
    /\ status = "Ready"
    /\ pending = 0
    /\ ttsCacheRef = EmptyMap
    /\ ttsObjCacheRef = EmptyMap
    /\ ttsQueueRef = <<>>
    /\ currentAnswerAudioRef = [key |-> <<>>, items |-> <<>>, mergedUrl |-> NoUrl]
    /\ audio = [src |-> NoUrl, state |-> "idle", waiter |-> NoRun]
    /\ urls = <<>>
    /\ revoked = {}
    /\ runs = [r \in RunIds |-> IdleRun]

Init ==
    /\ AtRest
    /\ tables = Call1(TextTables, ChunkTable(Texts))

(***************************************************************************)
(* Helpers shared by the handlers.                                         *)
(***************************************************************************)
\* setStatus(s => (s.includes("Thinking") ? s : next))
KeepThinking(s, next) == IF s = "Thinking..." THEN s ELSE next

\* a faulty store: an entry that exists is kept
MapKeepFirst(m, k, v) == [x \in DOMAIN m \cup {k} |-> IF x \in DOMAIN m THEN m[x] ELSE v]

\* Map.prototype.set
MapSet(m, k, v) == [x \in DOMAIN m \cup {k} |-> IF x = k THEN v ELSE m[x]]

\* a continuation of an await on a settled promise runs before any other task
NoMicrotask == \A r \in RunIds : runs[r].pc # "ready"

Running(r) == runs[r].pc \notin {"idle", "done", "failed"}
FreeRuns == {r \in RunIds : runs[r].pc = "idle"}
\* invocations take the records in order
NextRun == CHOOSE r \in FreeRuns : \A q \in FreeRuns : r <= q

\* the texts whose progressive loop (line 1220) has run to its end
Spoken == {runs[q].text : q \in {x \in RunIds : runs[x].pc = "done" /\ runs[x].branch = "speak"}}

\* the objects getTtsAudioObj has resolved with for a key, each made from one response
Returned(key) ==
    {[url |-> u, ab |-> urls[u].parts[1], mime |-> urls[u].mime] :
        u \in {x \in 1..Len(urls) :
                  urls[x].kind = "tts" /\ cacheKey(Lang, urls[x].parts[1].text) = key}}

\* a.paused
Paused(a) == a.state = "idle"

\* HTMLMediaElement.play() on the source u, called for run w (NoRun: nobody awaits):
\*   "blocked"  NotAllowedError, the promise is already rejected, paused stays true
\*   "ok"       paused becomes false, the promise resolves when playback starts
\*   "error"    paused becomes false, the blob behind a revoked url cannot be
\*              loaded, the promise rejects later and no ended event follows
PlayOutcomes(u) == IF u \in revoked THEN {"blocked", "error"} ELSE {"blocked", "ok"}
PlayOn(u, outcome, w) ==
    [src |-> u,
     state |-> CASE outcome = "blocked" -> "idle"
                 [] outcome = "ok" -> "playing"
                 [] OTHER -> "stalled",
     waiter |-> IF outcome = "blocked" THEN NoRun ELSE w]

\* line 1157: resetCurrentAnswerAudio(key)
resetRevoked(cur) == IF cur.mergedUrl # NoUrl THEN {cur.mergedUrl} ELSE {}
resetCurrentAnswerAudio(key) == [key |-> key, items |-> <<>>, mergedUrl |-> NoUrl]

(***************************************************************************)
(* speakTextSmart, progressive branch (lines 1217-1230), getTtsAudioObj    *)
(* (lines 1165-1183) and enqueueAndPlay (lines 1186-1194).                 *)
(***************************************************************************)
\* a faulty lookup: it never finds the key
CacheHasNever(cache, key) == FALSE

\* line 1168: ttsObjCacheRef.current.has(cacheKey)
CacheHas(cache, key) == key \in DOMAIN cache

\* the keys some getTtsAudioObj call has resolved for
ResolvedKeys == {k \in Keys : Returned(k) # {}}

\* lines 1166-1174: getTtsAudioObj(chunks[i]) up to its first await.  A hit returns
\* the cached object (the caller's await resumes as a microtask); a miss posts
\* the normalised chunk to /api/tts.  res: the keys resolved so far.
getTtsAudioObjCall(rec, cache, res) ==
    LET key == KeyOf(rec.text, rec.i)
        called == [rec EXCEPT !.reqLog = Append(@, rec.i), !.hit = key \in res]
    IN IF CacheHas(cache, key)
       THEN [called EXCEPT !.pc = "ready", !.obj = cache[key]]
       ELSE [called EXCEPT !.pc = "fetch"]

\* line 1220: the loop test i < chunks.length, then the call for chunk i
\* (chunks are numbered from 1 here)
speakLoop(rec, cache, res) ==
    IF rec.i > Len(Chunks(rec.text))
    THEN [rec EXCEPT !.pc = "done"]
    ELSE getTtsAudioObjCall(rec, cache, res)

\* line 1220: i++
NextIndex(i) == i + 1

\* line 1228: setStatus(... "Ready") once the loop is over
StatusAfter(nr, st) == IF nr.pc = "done" THEN KeepThinking(st, "Ready") ELSE st

\* a faulty enqueue: the url is put in front of the queue
enqueueUnshift(queue, url) == <<url>> \o queue

\* line 1187: ttsQueueRef.current.push(audioUrl)
enqueuePush(queue, url) == Append(queue, url)

\* a faulty test: the head of the queue is played whatever the sink is doing
StartsPlaybackAlways(a, queue) == Len(queue) >= 1

\* line 1191: a.paused && ttsQueueRef.current.length === 1
StartsPlayback(a, queue) == Paused(a) /\ Len(queue) = 1

\* line 1223: if (currentAnswerAudioRef.current.key)
Records(cur) == cur.key # <<>>

\* lines 1222-1227, with obj the object getTtsAudioObj resolved with: record the
\* segment, enqueue the url, start playback when the sink is idle, go on with
\* the loop unless the promise of a.play() has to be awaited
Deliver(r, rec, obj, cache, res) ==
    LET seg == [ab |-> obj.ab, mime |-> obj.mime]
        rec1 == [rec EXCEPT !.enqLog = Append(@, obj.ab.text), !.obj = NoObj,
                            !.hit = FALSE]
        next == speakLoop([rec1 EXCEPT !.i = NextIndex(@)], cache, res)
        queue1 == enqueuePush(ttsQueueRef, obj.url)
        recorded == Records(currentAnswerAudioRef)
        \* an array being iterated by a replay run is the array pushed to
        base == [q \in RunIds |->
                   IF runs[q].live /\ recorded
                   THEN [runs[q] EXCEPT !.items = Append(@, seg)]
                   ELSE runs[q]]
    IN /\ currentAnswerAudioRef' =
              IF recorded
              THEN [currentAnswerAudioRef EXCEPT !.items = Append(@, seg)]
              ELSE currentAnswerAudioRef
       /\ ttsQueueRef' = queue1
       /\ IF StartsPlayback(audio, queue1)
          THEN \E o \in PlayOutcomes(queue1[1]) :
                 /\ audio' = PlayOn(queue1[1], o, r)
                 /\ IF o = "blocked"
                    THEN /\ runs' = [base EXCEPT ![r] = next]
                         /\ status' = StatusAfter(next, status)
                    ELSE /\ runs' = [base EXCEPT ![r] = [rec1 EXCEPT !.pc = "play"]]
                         /\ status' = status
          ELSE /\ audio' = audio
               /\ runs' = [base EXCEPT ![r] = next]
               /\ status' = StatusAfter(next, status)

\* lines 1175-1182: the response arrived with resp.ok and a readable body
FetchOk(r, ct) ==
    /\ NoMicrotask
    /\ runs[r].pc = "fetch"
    /\ LET rec == runs[r]
           key == KeyOf(rec.text, rec.i)
           url == Len(urls) + 1
           ab == [text |-> Safe(rec.text, rec.i), id |-> url]
           mime == IF ct = "" THEN DefaultMime ELSE ct
           obj == [url |-> url, ab |-> ab, mime |-> mime]
           cache1 == MapSet(ttsObjCacheRef, key, obj)
       IN /\ urls' = Append(urls, [kind |-> "tts", parts |-> <<ab>>, mime |-> mime])
          /\ ttsObjCacheRef' = cache1
          /\ Deliver(r, rec, obj, cache1, ResolvedKeys \cup {key})
    /\ UNCHANGED <<messages, pending, ttsCacheRef, revoked, tables>>

\* line 1175 throws (status not ok) or line 1176 rejects (body unreadable): the
\* progressive branch has no try, the promise of speakTextSmart is rejected
FetchFail(r) ==
    /\ NoMicrotask
    /\ runs[r].pc = "fetch"
    /\ runs' = [runs EXCEPT ![r].pc = "failed"]
    /\ UNCHANGED <<messages, status, pending, ttsCacheRef, ttsObjCacheRef, ttsQueueRef,
                   currentAnswerAudioRef, audio, urls, revoked, tables>>

\* line 1168 returned the cached object: the await of line 1221 resumes
CacheHitResume(r) ==
    /\ runs[r].pc = "ready"
    /\ Deliver(r, runs[r], runs[r].obj, ttsObjCacheRef, ResolvedKeys)
    /\ UNCHANGED <<messages, pending, ttsCacheRef, ttsObjCacheRef, urls, revoked, tables>>

\* line 1192: the promise of a.play() settled, the catch swallows a rejection
PlaySettled(r) ==
    /\ NoMicrotask
    /\ runs[r].pc = "play"
    /\ LET next == speakLoop([runs[r] EXCEPT !.i = NextIndex(@)], ttsObjCacheRef, ResolvedKeys)
       IN /\ runs' = [runs EXCEPT ![r] = next]
          /\ status' = StatusAfter(next, status)
    /\ audio' = IF audio.waiter = r THEN [audio EXCEPT !.waiter = NoRun] ELSE audio
    /\ UNCHANGED <<messages, pending, ttsCacheRef, ttsObjCacheRef, ttsQueueRef,
                   currentAnswerAudioRef, urls, revoked, tables>>

\* line 1558: the timer set by runChat fires: speakTextSmart(finalText, "en")
SpeakStart(r) ==
    /\ NoMicrotask
    /\ runs[r].pc = "timer"
    /\ LET next == speakLoop([runs[r] EXCEPT !.i = 1, !.branch = "speak"],
                             ttsObjCacheRef, ResolvedKeys)
       IN /\ runs' = [runs EXCEPT ![r] = next]
          /\ status' = StatusAfter(next, KeepThinking(status, "Speaking..."))
    /\ UNCHANGED <<messages, pending, ttsCacheRef, ttsObjCacheRef, ttsQueueRef,
                   currentAnswerAudioRef, audio, urls, revoked, tables>>

(***************************************************************************)
(* speakTextSmart, replay branch (lines 1232-1284).                        *)
(***************************************************************************)
\* line 1236: if (!items?.length)
FallsBack(items) == Len(items) = 0

\* line 1841: the Replay button of message m: speakTextSmart(m.text, "en", { replay: true })
\* up to its first await
ReplayClick(m) ==
    /\ NoMicrotask
    /\ m \in 1..Len(messages)
    /\ messages[m].role = "assistant" /\ ~messages[m].provisional
    /\ FreeRuns # {}
    /\ LET r == NextRun
           rec == [IdleRun EXCEPT !.text = messages[m].text, !.replay = TRUE,
                                  !.after = messages[m].text \in Spoken]
           items == currentAnswerAudioRef.items
       IN IF FallsBack(items)
          THEN \* line 1238: the progressive branch runs to its first await, then
               \* the finally of line 1282 sets "Ready"
               /\ runs' = [runs EXCEPT ![r] =
                              speakLoop([rec EXCEPT !.i = 1, !.branch = "speak"],
                                        ttsObjCacheRef, ResolvedKeys)]
               /\ status' = "Ready"
          ELSE \* line 1244: await ctx.decodeAudioData(...), the first of the segments
               /\ runs' = [runs EXCEPT ![r] =
                              [rec EXCEPT !.pc = "decode", !.branch = "merge",
                                          !.items = items, !.live = TRUE]]
               /\ status' = "Preparing..."
    /\ UNCHANGED <<messages, pending, ttsCacheRef, ttsObjCacheRef, ttsQueueRef,
                   currentAnswerAudioRef, audio, urls, revoked, tables>>

\* lines 1247-1265: the segments decoded, concatenated and encoded as one WAV blob
MergedBlob(items) ==
    [kind |-> "merged", parts |-> [k \in 1..Len(items) |-> items[k].ab], mime |-> WavMime]

\* a faulty takeover: the queue is left as it is
queueKeep(queue) == queue

\* line 1271: ttsQueueRef.current.length = 0
queueClear(queue) == <<>>

\* lines 1243-1278: the last decodeAudioData resolved (the loop iterates the live
\* array, so it covers every segment pushed before this moment); the clip is
\* built, stored on the ledger, the queue emptied and the sink taken over
DecodeDone(r) ==
    /\ NoMicrotask
    /\ runs[r].pc = "decode"
    /\ LET mergedUrl == Len(urls) + 1 IN
       /\ urls' = Append(urls, MergedBlob(runs[r].items))
       /\ revoked' = revoked \cup resetRevoked(currentAnswerAudioRef)
       /\ currentAnswerAudioRef' = [currentAnswerAudioRef EXCEPT !.mergedUrl = mergedUrl]
       /\ ttsQueueRef' = queueClear(ttsQueueRef)
       /\ \E o \in PlayOutcomes(mergedUrl) :
            /\ audio' = PlayOn(mergedUrl, o, r)
            /\ IF o = "blocked"
               THEN /\ runs' = [runs EXCEPT ![r].pc = "done", ![r].live = FALSE]
                    /\ status' = "Ready"
               ELSE /\ runs' = [runs EXCEPT ![r].pc = "mplay", ![r].live = FALSE]
                    /\ status' = status
    /\ UNCHANGED <<messages, pending, ttsCacheRef, ttsObjCacheRef, tables>>

\* a faulty catch: the error is swallowed
swallowMergeError(ms) == ms

\* line 1280: setMessages(m => [...m, { role: "assistant", text: `Replay merge error: ...` }])
surfaceMergeError(ms) ==
    Append(ms, [role |-> "assistant", text |-> MergeErrorText, provisional |-> FALSE])

\* line 1244 rejects: catch (line 1280) appends the message, finally sets "Ready"
DecodeFail(r) ==
    /\ NoMicrotask
    /\ runs[r].pc = "decode"
    /\ messages' = surfaceMergeError(messages)
    /\ status' = "Ready"
    /\ runs' = [runs EXCEPT ![r].pc = "failed", ![r].live = FALSE]
    /\ UNCHANGED <<pending, ttsCacheRef, ttsObjCacheRef, ttsQueueRef, currentAnswerAudioRef,
                   audio, urls, revoked, tables>>

\* line 1277: the promise of a.play() settled; finally (line 1282) sets "Ready"
MergedPlaySettled(r) ==
    /\ NoMicrotask
    /\ runs[r].pc = "mplay"
    /\ audio' = IF audio.waiter = r THEN [audio EXCEPT !.waiter = NoRun] ELSE audio
    /\ status' = "Ready"
    /\ runs' = [runs EXCEPT ![r].pc = "done"]
    /\ UNCHANGED <<messages, pending, ttsCacheRef, ttsObjCacheRef, ttsQueueRef,
                   currentAnswerAudioRef, urls, revoked, tables>>

(***************************************************************************)
(* The ended event of the <audio> element: onEnded (lines 1199-1207), then *)
(* onEnd (line 1327).  Playback that reached its end leaves the element    *)
(* paused.                                                                 *)
(***************************************************************************)
\* line 1201: ttsQueueRef.current.shift()
queueShift(queue) == IF queue = <<>> THEN queue ELSE Tail(queue)

Ended ==
    /\ NoMicrotask
    /\ audio.state = "playing" /\ audio.waiter = NoRun
    /\ LET queue1 == queueShift(ttsQueueRef) IN
       /\ ttsQueueRef' = queue1
       /\ IF Len(queue1) > 0
          THEN \E o \in PlayOutcomes(queue1[1]) : audio' = PlayOn(queue1[1], o, NoRun)
          ELSE audio' = [audio EXCEPT !.state = "idle"]
    /\ status' = KeepThinking(status, "Ready")
    /\ UNCHANGED <<messages, pending, ttsCacheRef, ttsObjCacheRef, currentAnswerAudioRef,
                   urls, revoked, runs, tables>>

(***************************************************************************)
(* The chat turn (sendTextMessage, runChat) and newConversation.           *)
(***************************************************************************)
\* lines 1492-1508: the user message and the provisional bubble; "Thinking..." is
\* overwritten by "Chatflow..." before the request is awaited
SendMessage ==
    /\ NoMicrotask
    /\ Len(messages) < MaxMsgs
    /\ pending < MaxPending
    /\ messages' = messages
                   \o <<[role |-> "user", text |-> UserText, provisional |-> FALSE],
                        [role |-> "assistant", text |-> ThinkingText, provisional |-> TRUE]>>
    /\ status' = "Chatflow..."
    /\ pending' = pending + 1
    /\ UNCHANGED <<ttsCacheRef, ttsObjCacheRef, ttsQueueRef, currentAnswerAudioRef, audio,
                   urls, revoked, runs, tables>>

\* lines 1544-1554: the last provisional bubble becomes the final
\* message; without one the message is appended
LastProvisional(ms) ==
    LET P == {k \in 1..Len(ms) : ms[k].role = "assistant" /\ ms[k].provisional} IN
    IF P = {} THEN 0 ELSE CHOOSE k \in P : \A j \in P : j <= k
Finalize(ms, text) ==
    LET final == [role |-> "assistant", text |-> text, provisional |-> FALSE] IN
    IF LastProvisional(ms) = 0 THEN Append(ms, final)
    ELSE [ms EXCEPT ![LastProvisional(ms)] = final]

\* lines 1526-1561: the answer arrived: the transcript is updated, the ledger is
\* reset for the answer and speakTextSmart is scheduled with setTimeout(..., 0)
ChatResponse(t) ==
    /\ NoMicrotask
    /\ pending > 0
    /\ FreeRuns # {}
    /\ messages' = Finalize(messages, t)
    /\ revoked' = revoked \cup resetRevoked(currentAnswerAudioRef)
    /\ currentAnswerAudioRef' = resetCurrentAnswerAudio(t)
    /\ runs' = [q \in RunIds |->
                  IF q = NextRun THEN [IdleRun EXCEPT !.pc = "timer", !.text = t]
                  ELSE [runs[q] EXCEPT !.live = FALSE]]
    /\ status' = "Ready"
    /\ pending' = pending - 1
    /\ UNCHANGED <<ttsCacheRef, ttsObjCacheRef, ttsQueueRef, audio, urls, tables>>

\* line 1145: clearTtsCache revokes the urls of ttsCacheRef
clearTtsCacheRevoked(cache) == {cache[k] : k \in DOMAIN cache}

\* lines 1592-1617: newConversation (microphone and socket are not modelled)
NewConversation ==
    /\ NoMicrotask
    /\ revoked' = revoked \cup clearTtsCacheRevoked(ttsCacheRef)
    /\ ttsCacheRef' = EmptyMap
    /\ messages' = <<>>
    /\ status' = "Ready"
    /\ UNCHANGED <<pending, ttsObjCacheRef, ttsQueueRef, currentAnswerAudioRef, audio,
                   urls, runs, tables>>

Next ==
    \/ SendMessage
    \/ \E t \in Answers : ChatResponse(t)
    \/ NewConversation
    \/ \E r \in RunIds : SpeakStart(r)
    \/ \E r \in RunIds, ct \in ContentTypes : FetchOk(r, ct)
    \/ \E r \in RunIds : FetchFail(r)
    \/ \E r \in RunIds : CacheHitResume(r)
    \/ \E r \in RunIds : PlaySettled(r)
    \/ \E m \in 1..(MaxMsgs + MaxRuns + 1) : ReplayClick(m)
    \/ \E r \in RunIds : DecodeDone(r)
    \/ \E r \in RunIds : DecodeFail(r)
    \/ \E r \in RunIds : MergedPlaySettled(r)
    \/ Ended

Spec == Init /\ [][Next]_vars

(***************************************************************************)
(* The pure text functions on their own: each specification draws the      *)
(* arguments of one call from a bounded set, tables holds the arguments    *)
(* and, once the call has returned, its result; the pipeline stays at rest.*)
(***************************************************************************)
\* sequences over S of length at most n
SeqsUpTo(S, n) == UNION {[1..k -> S] : k \in 0..n}

\* sentences in one groupSentencesToChunks call
MaxGroupLen == 4

Sentence_One == <<"O", "n", "e", ".">>
Sentence_Two == <<"T", "w", "o", ".">>
Sentence_Three == <<"T", "h", "r", "e", "e", ".">>
Sentence_Four == <<"F", "o", "u", "r", ".">>
Sentence_Five == <<"F", "i", "v", "e", ".">>
Sentence_Ab == <<"A", " ", "b", ".">>
FiveSentences == <<Sentence_One, Sentence_Two, Sentence_Three, Sentence_Four, Sentence_Five>>
GroupSentences == {Sentence_One, Sentence_Three, Sentence_Ab}
GroupInputs == SeqsUpTo(GroupSentences, MaxGroupLen) \cup {FiveSentences}
GroupMaxChars == {0, 1, 4, 9, 11, 16, 1000}
GroupMinSents == 0..3
GroupMaxSents == 0..4

GroupInit ==
    /\ AtRest
    /\ \E ss \in GroupInputs, mc \in GroupMaxChars, mn \in GroupMinSents, mx \in GroupMaxSents :
          tables = [pc |-> "call", sentences |-> ss, maxChars |-> mc, minSent |-> mn,
                    maxSent |-> mx, chunks |-> <<>>]

\* lines 1046-1063: groupSentencesToChunks(sentences, { maxChars, minSent, maxSent })
GroupCall ==
    /\ tables.pc = "call"
    /\ tables' = [tables EXCEPT
                     !.pc = "return",
                     !.chunks = groupSentencesToChunks(tables.sentences, tables.maxChars,
                                                       tables.minSent, tables.maxSent)]
    /\ UNCHANGED pipeline

GroupNext == GroupCall

GroupSpec == GroupInit /\ [][GroupNext]_vars

\* characters in one sanitizeForTTS call
MaxTextLen == 4

\* two digits, hyphen, percent and currency signs, a letter, space, line feed
\* and a dash
SanitizeAlphabet == {"3", "5", "-", "%", "$", " ", "a", "\n", EnDash}
ChainedRange == <<"3", "-", "5", "-", "7">>
ScenarioA ==
    <<"D", "r", ".", " ", "S", "m", "i", "t", "h", " ", "s", "a", "i", "d",
      " ", "t", "h", "e", " ", "r", "a", "t", "e", " ", "i", "s", " ", "-",
      "5", "%", ".", " ", "T", "h", "a", "t", "'", "s", " ", "a", " ", "3",
      "-", "5", " ", "p", "o", "i", "n", "t", " ", "d", "r", "o", "p", ".">>
ScenarioANormalized ==
    <<"D", "r", ".", " ", "S", "m", "i", "t", "h", " ", "s", "a", "i", "d",
      " ", "t", "h", "e", " ", "r", "a", "t", "e", " ", "i", "s", " ", "n",
      "e", "g", "a", "t", "i", "v", "e", " ", "5", " ", "p", "e", "r", "c",
      "e", "n", "t", ".", " ", "T", "h", "a", "t", "'", "s", " ", "a", " ",
      "3", " ", "t", "o", " ", "5", " ", "p", "o", "i", "n", "t", " ", "d",
      "r", "o", "p", ".">>
SanitizeInputs == SeqsUpTo(SanitizeAlphabet, MaxTextLen) \cup {ChainedRange, ScenarioA}

SanitizeInit ==
    /\ AtRest
    /\ \E t \in SanitizeInputs :
          tables = [pc |-> "call", input |-> t, once |-> <<>>, twice |-> <<>>]

\* lines 1421-1454: safe = sanitizeForTTS(input)
SanitizeCall ==
    /\ tables.pc = "call"
    /\ tables' = [tables EXCEPT !.pc = "again", !.once = sanitizeForTTS(tables.input)]
    /\ UNCHANGED pipeline

\* sanitizeForTTS applied to its own result
SanitizeAgain ==
    /\ tables.pc = "again"
    /\ tables' = [tables EXCEPT !.pc = "return", !.twice = sanitizeForTTS(tables.once)]
    /\ UNCHANGED pipeline

SanitizeNext == SanitizeCall \/ SanitizeAgain

SanitizeSpec == SanitizeInit /\ [][SanitizeNext]_vars

\* characters in one splitIntoSentencesSmart call
MaxSegLen == 6

\* the letters of the abbreviation Ms., a terminator, space, an opener and the
\* character protectAbbrDots uses as its sentinel
SegmentAlphabet == {"M", "s", ".", " ", "(", Sentinel}
SegmentInputs == SeqsUpTo(SegmentAlphabet, MaxSegLen) \cup {ScenarioA}

SegmentInit ==
    /\ AtRest
    /\ \E t \in SegmentInputs : tables = [pc |-> "call", text |-> t, sentences |-> <<>>]

\* lines 1035-1043: sentences = splitIntoSentencesSmart(text)
SegmentCall ==
    /\ tables.pc = "call"
    /\ tables' = [tables EXCEPT !.pc = "return",
                                !.sentences = splitIntoSentencesSmart(tables.text)]
    /\ UNCHANGED pipeline

SegmentNext == SegmentCall

SegmentSpec == SegmentInit /\ [][SegmentNext]_vars

\* characters of the language and of the chunk text of one getTtsAudioObj call
MaxLangLen == 1
MaxKeyTextLen == 3

KeyLangs == SeqsUpTo({"e", ":"}, MaxLangLen)
KeyTexts == SeqsUpTo({"x", ":", " "}, MaxKeyTextLen)

\* two getTtsAudioObj calls, one after the other, on an empty cache; cache is
\* the set of keys of ttsObjCacheRef, hit the outcome of the second lookup
KeyInit ==
    /\ AtRest
    /\ \E l1 \in KeyLangs, l2 \in KeyLangs, t1 \in KeyTexts, t2 \in KeyTexts :
          tables = [pc |-> "first", lang1 |-> l1, text1 |-> t1, lang2 |-> l2, text2 |-> t2,
                    safe1 |-> <<>>, safe2 |-> <<>>, cache |-> EmptyMap, hit |-> FALSE]

\* lines 1166-1181 of the first call: a miss, the response is stored under its key
KeyFirstCall ==
    /\ tables.pc = "first"
    /\ LET safe == sanitizeForTTS(tables.text1) IN
       tables' = [tables EXCEPT !.pc = "second", !.safe1 = safe,
                                !.cache = MapSet(@, cacheKey(tables.lang1, safe), NoObj)]
    /\ UNCHANGED pipeline

\* lines 1166-1168 of the second call: the lookup
KeySecondCall ==
    /\ tables.pc = "second"
    /\ LET safe == sanitizeForTTS(tables.text2) IN
       tables' = [tables EXCEPT !.pc = "return", !.safe2 = safe,
                                !.hit = CacheHas(tables.cache, cacheKey(tables.lang2, safe))]
    /\ UNCHANGED pipeline

KeyNext == KeyFirstCall \/ KeySecondCall

KeySpec == KeyInit /\ [][KeyNext]_vars

(***************************************************************************)
(* The merge of the replay branch (lines 1247-1264) and audioBufferToWavBlob*)
(* (lines 1287-1321).  An AudioBuffer is its numberOfChannels, sampleRate, *)
(* length and data, data[ch] being the samples of channel ch (from 1).     *)
(***************************************************************************)
\* lines 1250-1251: let totalLen = 0; for (const b of decoded) totalLen += b.length
RECURSIVE totalLen(_)
totalLen(decoded) ==
    IF decoded = <<>> THEN 0 ELSE decoded[1].length + totalLen(Tail(decoded))

\* ctx.createBuffer(channels, length, sampleRate): the samples are zero
createBuffer(channels, length, sampleRate) ==
    [numberOfChannels |-> channels, sampleRate |-> sampleRate, length |-> length,
     data |-> [ch \in 1..channels |-> [k \in 1..length |-> 0]]]

\* Float32Array.prototype.set(src, offset)
TypedArraySet(dst, src, offset) ==
    [k \in 1..Len(dst) |->
        IF k > offset /\ k <= offset + Len(src) THEN src[k - offset] ELSE dst[k]]

\* a faulty loop: the offset is not advanced
nextOffsetStuck(offset, b) == offset

\* line 1260: offset += b.length
nextOffset(offset, b) == offset + b.length

\* lines 1255-1261: the copy loop from segment k on
RECURSIVE copyFrom(_, _, _, _, _)
copyFrom(decoded, k, out, offset, channels) ==
    IF k > Len(decoded) THEN out
    ELSE copyFrom(decoded, k + 1,
                  [out EXCEPT !.data =
                      [ch \in 1..Len(out.data) |->
                          IF ch <= channels
                          THEN TypedArraySet(out.data[ch], decoded[k].data[ch], offset)
                          ELSE out.data[ch]]],
                  nextOffset(offset, decoded[k]), channels)

\* lines 1247-1261: sampleRate and channels of the first segment, one buffer
\* of the total length, every segment copied at its offset
mergeDecoded(decoded) ==
    copyFrom(decoded, 1,
             createBuffer(decoded[1].numberOfChannels, totalLen(decoded),
                          decoded[1].sampleRate),
             0, decoded[1].numberOfChannels)

\* DataView setUint16 / setUint32, little endian: the bytes written
u16(v) == <<v % 256, (v \div 256) % 256>>
u32(v) == <<v % 256, (v \div 256) % 256, (v \div 65536) % 256, (v \div 16777216) % 256>>
\* writeStr: one byte per character (a byte is written here as its character)
writeStr(str) == str

\* lines 1310-1312: clamp to [-1, 1], scale, setInt16 (two's complement)
sampleBytes(x) ==
    LET c == IF x < -1 THEN -1 ELSE IF x > 1 THEN 1 ELSE x
        v == IF c < 0 THEN c * 32768 ELSE c * 32767
    IN u16((v + 65536) % 65536)

\* lines 1306-1314: the frames interleaved, from frame i on
RECURSIVE interleaveFrom(_, _)
interleaveFrom(buffer, i) ==
    IF i > buffer.length THEN <<>>
    ELSE LET RECURSIVE frame(_)
             frame(ch) == IF ch > buffer.numberOfChannels THEN <<>>
                          ELSE sampleBytes(buffer.data[ch][i]) \o frame(ch + 1)
         IN frame(1) \o interleaveFrom(buffer, i + 1)

\* lines 1287-1315: audioBufferToWavBlob(buffer)
audioBufferToWavBlob(buffer) ==
    LET numCh == buffer.numberOfChannels
        sampleRate == buffer.sampleRate
        blockAlign == numCh * 2
        dataSize == buffer.length * blockAlign
        headerSize == 44
    IN [type |-> WavMime,
        bytes |-> writeStr(<<"R", "I", "F", "F">>) \o u32(headerSize + dataSize - 8)
                  \o writeStr(<<"W", "A", "V", "E">>)
                  \o writeStr(<<"f", "m", "t", " ">>) \o u32(16) \o u16(1) \o u16(numCh)
                  \o u32(sampleRate) \o u32(sampleRate * blockAlign) \o u16(blockAlign)
                  \o u16(16)
                  \o writeStr(<<"d", "a", "t", "a">>) \o u32(dataSize)
                  \o interleaveFrom(buffer, 1)]

\* segments in one merge, frames in one segment
MaxSegments == 3
MaxFrames == 2

MergeChannels == {1, 2}
MergeRates == {22050}
MergeSamples == {-1, 1}
\* the decoded segments of c channels at rate sr
DecodedBuffers(c, sr) ==
    UNION {{[numberOfChannels |-> c, sampleRate |-> sr, length |-> n, data |-> d] :
               d \in [1..c -> [1..n -> MergeSamples]]} : n \in 1..MaxFrames}
MergeInputs ==
    UNION {UNION {[1..n -> DecodedBuffers(c, sr)] : n \in 1..MaxSegments} :
              c \in MergeChannels, sr \in MergeRates}

MergeInit ==
    /\ AtRest
    /\ \E d \in MergeInputs :
          tables = [pc |-> "call", decoded |-> d, out |-> createBuffer(0, 0, 0),
                    wav |-> [type |-> "", bytes |-> <<>>]]

\* lines 1247-1261
MergeCall ==
    /\ tables.pc = "call"
    /\ tables' = [tables EXCEPT !.pc = "merged", !.out = mergeDecoded(tables.decoded)]
    /\ UNCHANGED pipeline

\* line 1264: mergedWavBlob = audioBufferToWavBlob(out)
EncodeCall ==
    /\ tables.pc = "merged"
    /\ tables' = [tables EXCEPT !.pc = "return", !.wav = audioBufferToWavBlob(tables.out)]
    /\ UNCHANGED pipeline

MergeNext == MergeCall \/ EncodeCall

MergeSpec == MergeInit /\ [][MergeNext]_vars

(***************************************************************************)
(* The texts one speak invocation posts to /api/tts, starting from an empty*)
(* cache and with every request answered (lines 1214-1221, 1166-1181).     *)
(***************************************************************************)
\* lines 1220-1221 with 1166-1174: for each chunk in turn, safe is computed,
\* a cached key returns at once, a new key posts { text: safe } and is stored
RECURSIVE requestsFrom(_, _, _, _)
requestsFrom(chunks, k, keys, sent) ==
    IF k > Len(chunks) THEN sent
    ELSE LET safe == sanitizeForTTS(chunks[k])
         IN IF cacheKey(Lang, safe) \in keys
            THEN requestsFrom(chunks, k + 1, keys, sent)
            ELSE requestsFrom(chunks, k + 1, keys \cup {cacheKey(Lang, safe)},
                              Append(sent, safe))

\* characters in one answer
MaxAnswerLen == 5

\* a lower-case letter, a capital, a digit, hyphen, space, line feed, period
AnswerAlphabet == {"a", "B", "5", "-", " ", "\n", "."}
ListAnswer == <<"B", "u", "y", ":", "\n", "-", " ", "a", ".", "\n", "-", " ", "b", ".">>
AnswerInputs == SeqsUpTo(AnswerAlphabet, MaxAnswerLen) \cup {ListAnswer, ScenarioA}

RequestInit ==
    /\ AtRest
    /\ \E t \in AnswerInputs :
          tables = [pc |-> "call", text |-> t, chunks |-> <<>>, sent |-> <<>>]

\* lines 1214-1215
SpeakChunks ==
    /\ tables.pc = "call"
    /\ tables' = [tables EXCEPT !.pc = "loop",
                      !.chunks = groupSentencesToChunks(
                                     splitIntoSentencesSmart(tables.text),
                                     MaxChars, MinSent, MaxSent)]
    /\ UNCHANGED pipeline

\* lines 1220-1228
SpeakRequests ==
    /\ tables.pc = "loop"
    /\ tables' = [tables EXCEPT !.pc = "return",
                      !.sent = requestsFrom(tables.chunks, 1, {}, <<>>)]
    /\ UNCHANGED pipeline

RequestNext == SpeakChunks \/ SpeakRequests

RequestSpec == RequestInit /\ [][RequestNext]_vars

(***************************************************************************)
(* Properties.                                                             *)
(***************************************************************************)
\* message m of the transcript is a final assistant message with text t
HasMessage(t) ==
    \E m \in 1..Len(messages) :
        messages[m].role = "assistant" /\ ~messages[m].provisional /\ messages[m].text = t

\* nothing is in progress: no invocation is suspended and no ended event is due
Quiescent == (\A r \in RunIds : ~Running(r)) /\ audio.state # "playing"

\* C1: a playback failure does not block the sequencer: the item whose play()
\* was rejected is treated as finished and the handles behind it still reach
\* the sink; so once every invocation is over and the sink has nothing left to
\* play, no handle is left waiting in the queue.
C1_PlaybackFailureDoesNotBlock == Quiescent => ttsQueueRef = <<>>

\* C2: within one progressive run the audio of the chunks is appended to the
\* playback queue in chunk order, and getTtsAudioObj is called for chunk N only
\* after the audio of chunk N-1 has been enqueued, whatever else interleaves.
C2_ChunksEnqueuedInOrder ==
    [][\A r \in RunIds :
         LET a == runs[r]
             b == runs'[r]
         IN /\ Len(b.enqLog) > Len(a.enqLog) =>
                 /\ Len(b.enqLog) = Len(a.enqLog) + 1
                 /\ Len(a.reqLog) = Len(b.enqLog)
                 /\ Len(ttsQueueRef') = Len(ttsQueueRef) + 1
                 /\ SubSeq(ttsQueueRef', 1, Len(ttsQueueRef)) = ttsQueueRef
                 /\ LET u == ttsQueueRef'[Len(ttsQueueRef')] IN
                      /\ u \in 1..Len(urls')
                      /\ urls'[u].kind = "tts"
                      /\ urls'[u].parts[1].text = Safe(b.text, Len(b.enqLog))
            /\ Len(b.reqLog) > Len(a.reqLog) /\ a.pc # "idle" =>
                 /\ b.reqLog = Append(a.reqLog, Len(a.reqLog) + 1)
                 /\ Len(b.enqLog) = Len(a.reqLog)
            /\ a.pc = "idle" => Len(b.reqLog) <= 1 /\ b.enqLog = <<>>
      ]_vars

\* C2 witness: the first chunk of a two-chunk answer was enqueued, played and
\* removed by an ended event while the request for the second chunk is in flight
C2_Witness ==
    \E r \in RunIds :
        /\ runs[r].pc = "fetch" /\ runs[r].i = 2
        /\ Len(runs[r].enqLog) = 1
        /\ ttsQueueRef = <<>>

\* C3: newConversation leaves the synthesis cache empty and has released every
\* playable handle the cache held.
C3_ClearAllEmptiesCache ==
    [][NewConversation =>
         /\ DOMAIN ttsObjCacheRef' = {}
         /\ \A k \in DOMAIN ttsObjCacheRef : ttsObjCacheRef[k].url \in revoked'
      ]_vars

\* C4: newConversation resets the answer ledger to its initial state, empties
\* the playback queue, pauses the sink and detaches its source.
C4_ClearAllResetsPlayback ==
    [][NewConversation =>
         /\ currentAnswerAudioRef' = [key |-> <<>>, items |-> <<>>, mergedUrl |-> NoUrl]
         /\ ttsQueueRef' = <<>>
         /\ Paused(audio')
         /\ audio'.src = NoUrl
      ]_vars

\* a progressive run made by runChat for an answer that newConversation has
\* since removed from the transcript (nothing else removes a message)
Superseded(r) == ~runs[r].replay /\ Running(r) /\ ~HasMessage(runs[r].text)

\* C5: what a run produces after newConversation dismissed its answer is
\* suppressed: no step of such a run records a segment in the ledger, enqueues
\* a handle or assigns the sink.
C5_LateResultsSuppressed ==
    [][\A r \in RunIds :
         Superseded(r) /\ runs'[r] # runs[r] =>
             /\ currentAnswerAudioRef'.items = currentAnswerAudioRef.items
             /\ ttsQueueRef' = ttsQueueRef
             /\ audio'.src = audio.src
      ]_vars

\* the speech texts of the chunks of an answer
ChunkSpeech(t) == {Safe(t, j) : j \in 1..Len(Chunks(t))}

\* C6: the merged clip a replay sends to the sink is made of segments of the
\* answer the replay was asked for: every segment of the clip is the speech of
\* one of that answer's chunks.
C6_ReplayPlaysItsAnswer ==
    \A r \in RunIds :
        runs[r].branch = "merge" /\ runs[r].pc \in {"mplay", "done"} =>
            \A k \in 1..Len(runs[r].items) :
                runs[r].items[k].ab.text \in ChunkSpeech(runs[r].text)

\* C7: a replay made after the progressive loop for the same answer has run to
\* its end never waits for a synthesis request, and the segments of a merge are
\* the bodies of responses synthesis received before, taken from the ledger.
C7_ReplayAfterSpeakNoFetch ==
    \A r \in RunIds :
        /\ runs[r].replay /\ runs[r].after => runs[r].pc # "fetch"
        /\ runs[r].branch = "merge" =>
              \A k \in 1..Len(runs[r].items) :
                  LET ab == runs[r].items[k].ab IN
                  /\ ab.id \in 1..Len(urls)
                  /\ urls[ab.id].kind = "tts"
                  /\ urls[ab.id].parts[1] = ab

\* C7 witness: the answer was spoken to its end, then replayed: the replay is
\* playing the clip merged from all the recorded segments of the answer
C7_Witness ==
    \E r \in RunIds :
        /\ runs[r].replay /\ runs[r].after
        /\ runs[r].branch = "merge" /\ runs[r].pc = "mplay"
        /\ Len(runs[r].items) = Len(Chunks(runs[r].text))
        /\ \A k \in 1..Len(runs[r].items) :
              runs[r].items[k].ab.text = Safe(runs[r].text, k)

\* C8: the merged clip is computed once per ledger entry: a replay made while
\* the entry holds a merged clip starts no decode, and the handle of the clip
\* changes only when the ledger is reset.
C8_MergedClipComputedOnce ==
    [][/\ (currentAnswerAudioRef.mergedUrl # NoUrl /\ \E m \in 1..Len(messages) : ReplayClick(m))
            => \A r \in RunIds : runs'[r].pc = "decode" => runs[r].pc = "decode"
       /\ (currentAnswerAudioRef.mergedUrl # NoUrl
              /\ currentAnswerAudioRef'.mergedUrl # currentAnswerAudioRef.mergedUrl)
            => currentAnswerAudioRef'.items = <<>> /\ currentAnswerAudioRef'.mergedUrl = NoUrl
      ]_vars

\* the getTtsAudioObj call run r made last
CallKey(r) == KeyOf(runs[r].text, runs[r].i)

\* C9 as stated: a getTtsAudioObj call made after a call with the same key has
\* resolved issues no request and resolves with the very object (handle, bytes,
\* media type) that every earlier call for the key resolved with.
C9_SameObjectAsEarlierCall ==
    \A r \in RunIds :
        /\ runs[r].hit => runs[r].pc # "fetch"
        /\ runs[r].pc = "ready" => \A o \in Returned(CallKey(r)) : runs[r].obj = o

\* C10: when the request for a chunk fails, a message is appended to the
\* transcript and the handles enqueued before stay in the queue.
C10_SynthesisFailureSurfaced ==
    [][\A r \in RunIds :
         runs[r].pc = "fetch" /\ runs'[r].pc = "failed" =>
             /\ Len(messages') = Len(messages) + 1
             /\ messages'[Len(messages')].role = "assistant"
             /\ ttsQueueRef' = ttsQueueRef
      ]_vars

\* a replay whose merge failed; a progressive invocation that ran to its end
\* having enqueued the speech of every chunk of its text, in order
MergeFailed(r) == runs[r].branch = "merge" /\ runs[r].pc = "failed"
SpokeAll(q) ==
    /\ runs[q].branch = "speak" /\ runs[q].pc = "done"
    /\ runs[q].enqLog = [i \in 1..Len(Chunks(runs[q].text)) |-> Safe(runs[q].text, i)]
\* the step in which the catch of line 1280 runs
MergeFailureStep ==
    \A r \in RunIds :
        (runs[r].pc = "decode" /\ runs'[r].pc = "failed") =>
            /\ messages' = Append(messages, [role |-> "assistant", text |-> MergeErrorText,
                                             provisional |-> FALSE])
            /\ UNCHANGED <<ttsObjCacheRef, currentAnswerAudioRef, ttsQueueRef>>
            /\ audio'.src = audio.src
\* invocations take the records in order: q > r was made after r
LaterSpeakNormal ==
    \A r, q \in RunIds :
        (MergeFailed(r) /\ q > r /\ runs[q].branch = "speak" /\ runs[q].pc = "done")
            => SpokeAll(q)

\* C11: a decode failure of the replay merge appends the inline message to the
\* transcript and leaves the synthesis cache, the ledger (segments and merged
\* url), the playback queue and the source of the sink as they were; a speak
\* invocation made after the failed replay that runs to its end has enqueued
\* the speech of every chunk of its text, in order.
C11_MergeFailureOnlySurfaced == [][MergeFailureStep]_vars /\ []LaterSpeakNormal
C11_Witness ==
    \E r, q \in RunIds :
        /\ MergeFailed(r) /\ q > r /\ SpokeAll(q) /\ runs[q].enqLog # <<>>
        /\ HasMessage(MergeErrorText)

\* the number of leading sentences of ss the chunk is the join of (joins of
\* non-empty sentences grow with their number, so there is at most one), -1
\* when the chunk is no such join
LeadCount(ss, chunk) ==
    Call1(LAMBDA N : IF N = {} THEN -1 ELSE MinOf(N),
          {n \in 0..Len(ss) : JoinSpace(SubSeq(ss, 1, n)) = chunk})

\* the number of sentences of each chunk, reading the chunks off the front of
\* ss one after the other; the reading stops with -1 at a chunk that does not fit
RECURSIVE SentenceCounts(_, _)
SentenceCounts(ss, chunks) ==
    IF chunks = <<>> THEN <<>>
    ELSE Call1(LAMBDA n :
                 IF n < 0 THEN <<-1>>
                 ELSE <<n>> \o Call2(SentenceCounts, SubSeq(ss, n + 1, Len(ss)), Tail(chunks)),
               LeadCount(ss, chunks[1]))

RECURSIVE SumOf(_)
SumOf(seq) == IF seq = <<>> THEN 0 ELSE seq[1] + SumOf(Tail(seq))

\* the counts of the chunks a returned call produced
GroupCounts == SentenceCounts(tables.sentences, tables.chunks)

\* the chunks, read back into their sentences and concatenated, are the input;
\* none is empty; there are none exactly when there is no sentence
PartitionsInput(ss, chunks, counts) ==
    /\ Len(counts) = Len(chunks)
    /\ \A j \in 1..Len(counts) : counts[j] >= 0
    /\ SumOf(counts) = Len(ss)
    /\ \A j \in 1..Len(chunks) : chunks[j] # <<>>
    /\ (chunks = <<>>) <=> (ss = <<>>)

\* C12 as stated: for every sequence of non-empty sentences and every parameter
\* setting the chunks partition the sentence sequence in order, no chunk is
\* empty, and the output is empty exactly when the input is.
C12_GroupPartitionsAnyParameters ==
    tables.pc = "return" =>
        Call1(LAMBDA c : PartitionsInput(tables.sentences, tables.chunks, c), GroupCounts)

\* C12, amended: the same for every parameter setting with minSent >= 1 and
\* maxSent >= 1 (any maxChars).
C12_GroupPartitions ==
    (tables.pc = "return" /\ tables.minSent >= 1 /\ tables.maxSent >= 1) =>
        Call1(LAMBDA c : PartitionsInput(tables.sentences, tables.chunks, c), GroupCounts)
C12_Witness ==
    /\ tables.pc = "return" /\ tables.minSent >= 1 /\ tables.maxSent >= 1
    /\ Len(tables.sentences) = 4 /\ Len(tables.chunks) = 2
    /\ GroupCounts = <<3, 1>>

\* the parameter settings with 1 <= minSent <= maxSent
WindowOrdered == 1 <= tables.minSent /\ tables.minSent <= tables.maxSent

\* C13: with maxChars >= 1 and 1 <= minSent <= maxSent, every chunk but the
\* last holds at least minSent sentences.
C13_OnlyLastChunkBelowMinimum ==
    (tables.pc = "return" /\ tables.maxChars >= 1 /\ WindowOrdered) =>
        Call1(LAMBDA c : \A j \in 1..(Len(c) - 1) : c[j] >= tables.minSent, GroupCounts)
\* a call that had to go over the budget to reach the minimum and ended with a
\* chunk below the minimum
C13_Witness ==
    /\ tables.pc = "return" /\ tables.maxChars >= 1 /\ WindowOrdered
    /\ tables.minSent = 2
    /\ Len(tables.chunks) = 2
    /\ Len(tables.chunks[1]) > tables.maxChars
    /\ GroupCounts = <<2, 1>>

C15_NormalizeIdempotent == tables.pc = "return" => tables.twice = tables.once

\* the numbers N, A, B of the short inputs
ShortNumbers == {<<"3">>, <<"5">>}

\* C16: sanitizeForTTS turns -N% into "negative N percent", $-N into
\* "negative $N", -N into "negative N" and A-B into "A to B"; the Scenario A
\* input becomes "Dr. Smith said the rate is negative 5 percent. That's a 3 to
\* 5 point drop."
C16_NegativesAndRanges ==
    tables.pc = "again" =>
        /\ \A n \in ShortNumbers :
              /\ tables.input = <<"-">> \o n \o <<"%">>
                    => tables.once = Str_negative \o n \o Str_percent
              /\ tables.input = <<"$", "-">> \o n
                    => tables.once = Str_negative \o <<"$">> \o n
              /\ tables.input = <<"-">> \o n
                    => tables.once = Str_negative \o n
        /\ \A a, b \in ShortNumbers :
              tables.input = a \o <<"-">> \o b => tables.once = a \o Str_to \o b
        /\ tables.input = ScenarioA => tables.once = ScenarioANormalized

\* the text with its whitespace collapsed and trimmed
Collapsed(text) == Trim(Call2(CollapseSpaces, text, 1))

\* position k of c is the final period of a listed abbreviation that stands as
\* a word (no letter before it)
AbbrPeriod(c, k) ==
    \E a \in 1..Len(ABBR) :
        LET i == k - Len(ABBR[a]) + 1 IN
        /\ i >= 1
        /\ MatchesAt(c, i, ABBR[a])
        /\ (i = 1 \/ c[i - 1] \notin Letters)

\* the spaces of c at which the claim has a break: after a terminator, before
\* an optional opener and an uppercase letter or digit, the terminator not
\* being the period of an abbreviation
ClaimedBreaks(c) == {p \in 1..Len(c) : BoundaryAt(c, p) /\ ~AbbrPeriod(c, p - 1)}

\* c from position p on, cut at the breaks B
RECURSIVE PiecesFrom(_, _, _)
PiecesFrom(c, p, B) ==
    Call1(LAMBDA later :
            IF later = {} THEN <<SubSeq(c, p, Len(c))>>
            ELSE <<SubSeq(c, p, MinOf(later) - 1)>> \o PiecesFrom(c, MinOf(later) + 1, B),
          {q \in B : q >= p})

ClaimedSentences(text) ==
    Call1(LAMBDA c : PiecesFrom(c, 1, ClaimedBreaks(c)), Collapsed(text))

\* C17: splitIntoSentencesSmart never breaks at the period of a listed
\* abbreviation and breaks at every other terminator that is followed by
\* whitespace, an optional opener and an uppercase letter or digit; a text
\* without such a boundary comes back whole (collapsed and trimmed) as one
\* sentence; Scenario A gives two sentences, cut between "%." and "That's".
C17_SegmentBreaks ==
    (tables.pc = "return" /\ Collapsed(tables.text) # <<>>) =>
        tables.sentences = ClaimedSentences(tables.text)

\* a step of onEnded that shifts a url off the queue (the replay branch, which
\* also shortens the queue, makes a new object URL)
EndedShifts == ttsQueueRef # <<>> /\ ttsQueueRef' = Tail(ttsQueueRef) /\ urls' = urls

\* C18: the queue is first-in first-out and an ended event removes a url from
\* it only if that url is the one assigned to the sink, also while the merged
\* clip of a replay owns the sink and a progressive invocation enqueues.
C18_EndedRemovesThePlayedUrl ==
    [][/\ EndedShifts => audio.src = Head(ttsQueueRef)
       /\ (Len(ttsQueueRef') > Len(ttsQueueRef))
             => SubSeq(ttsQueueRef', 1, Len(ttsQueueRef)) = ttsQueueRef]_vars

\* a step of enqueueAndPlay: the only code that lengthens the queue
Enqueues == Len(ttsQueueRef') = Len(ttsQueueRef) + 1

\* C19: enqueueAndPlay while the sink is playing only appends: source and
\* playback of the sink stay as they are; enqueueAndPlay changes the source
\* only when the sink is not playing and the url enqueued is alone in the queue.
C19_EnqueueWhilePlayingOnlyAppends ==
    [][Enqueues =>
         /\ SubSeq(ttsQueueRef', 1, Len(ttsQueueRef)) = ttsQueueRef
         /\ audio.state = "playing" => audio' = audio
         /\ audio'.src # audio.src =>
               /\ audio.state # "playing"
               /\ Len(ttsQueueRef') = 1
               /\ audio'.src = ttsQueueRef'[1]]_vars
\* a second url waits behind the one being played
C19_Witness ==
    /\ Len(ttsQueueRef) = 2
    /\ audio.state = "playing"
    /\ audio.src = ttsQueueRef[1]
    /\ ttsQueueRef[2] # ttsQueueRef[1]

\* the ways a step gives the sink a new source: enqueueAndPlay on a paused sink
\* with the url alone in the queue (line 1192), onEnded going on to the next
\* url (line 1204), the replay branch with the clip it has just made, the
\* queue emptied and the playback before it gone (lines 1271-1277)
ByEnqueue ==
    /\ Enqueues /\ Paused(audio)
    /\ Len(ttsQueueRef') = 1 /\ audio'.src = ttsQueueRef'[1]
ByAdvance ==
    /\ EndedShifts /\ audio.state = "playing"
    /\ ttsQueueRef' # <<>> /\ audio'.src = ttsQueueRef'[1]
ByMergedClip ==
    /\ Len(urls') = Len(urls) + 1
    /\ audio'.src = Len(urls') /\ urls'[audio'.src].kind = "merged"
    /\ currentAnswerAudioRef'.mergedUrl = audio'.src
    /\ ttsQueueRef' = <<>>
    /\ audio'.waiter \notin {w \in RunIds : runs[w].pc = "play"}

\* C20: the source of the sink is assigned only by enqueueAndPlay on an idle
\* sink, by onEnded going on to the next url, or by the replay branch with its
\* merged clip; when the replay branch assigns it the queue has been emptied
\* and the playback that was under way is over.
C20_SinkSourceOwnership ==
    [][(audio'.src # audio.src) => (ByEnqueue \/ ByAdvance \/ ByMergedClip)]_vars
\* the merged clip plays, the queue is empty, and the progressive invocation
\* whose playback the replay took over is still awaiting its play() promise
C20_Witness ==
    /\ audio.src # NoUrl /\ urls[audio.src].kind = "merged"
    /\ audio.state = "playing"
    /\ ttsQueueRef = <<>>
    /\ \E w \in RunIds : runs[w].pc = "play" /\ runs[w].branch = "speak"

\* the step in which the progressive invocation r records its first segment
\* on the ledger (line 1224)
FirstSegmentRecorded(r) ==
    /\ runs[r].branch = "speak"
    /\ runs[r].enqLog = <<>> /\ runs'[r].enqLog # <<>>
    /\ Len(currentAnswerAudioRef'.items) = Len(currentAnswerAudioRef.items) + 1

\* C21: a progressive invocation starts from a reset ledger: when it records
\* its first segment the ledger is keyed to its text, holds no segment and no
\* merged url, whether the invocation was made for a fresh answer or by the
\* fallback of a replay.
C21_SpeakStartsFromResetLedger ==
    [][\A r \in RunIds :
          FirstSegmentRecorded(r) =>
              /\ currentAnswerAudioRef.key = runs[r].text
              /\ currentAnswerAudioRef.items = <<>>
              /\ currentAnswerAudioRef.mergedUrl = NoUrl]_vars

\* C22: the segments of the ledger are a prefix of the chunk audio of the answer
\* the ledger is keyed to, in generation order and without duplicates, whatever
\* invocations overlap.
C22_LedgerIsPrefixOfKeyedAnswer ==
    IF currentAnswerAudioRef.key = <<>> THEN currentAnswerAudioRef.items = <<>>
    ELSE /\ Len(currentAnswerAudioRef.items) <= Len(Chunks(currentAnswerAudioRef.key))
         /\ \A k \in 1..Len(currentAnswerAudioRef.items) :
               /\ k <= Len(Chunks(currentAnswerAudioRef.key))
               /\ currentAnswerAudioRef.items[k].ab.text = Safe(currentAnswerAudioRef.key, k)

\* C23: two getTtsAudioObj calls share a cache entry exactly when their
\* languages are equal and their chunk texts normalise to the same string, for
\* all languages and texts, those that contain "::" included.
C23_CacheKeyedByTextAndLanguage ==
    tables.pc = "return" =>
        (tables.hit <=> (tables.lang1 = tables.lang2 /\ tables.safe1 = tables.safe2))

\* the object urls made from /api/tts responses for a key
UrlsOf(key) == {o.url : o \in Returned(key)}

\* C24: whatever the interleaving of getTtsAudioObj calls for one key, the key
\* maps to one object whose url, bytes and type come from one response, that
\* object is the one stored last, and a call that found the key returns such
\* an object.
C24_CacheConsistentUnderRaces ==
    /\ \A key \in DOMAIN ttsObjCacheRef :
          /\ ttsObjCacheRef[key] \in Returned(key)
          /\ ttsObjCacheRef[key].ab.id = ttsObjCacheRef[key].url
          /\ ttsObjCacheRef[key].url = MaxOf(UrlsOf(key))
    /\ \A key \in Keys : Returned(key) # {} => key \in DOMAIN ttsObjCacheRef
    /\ \A r \in RunIds :
          runs[r].pc = "ready" => runs[r].obj \in Returned(KeyOf(runs[r].text, runs[r].i))
\* two calls fetched the same key and both responses arrived
C24_Witness ==
    \E key \in DOMAIN ttsObjCacheRef :
        /\ Cardinality(UrlsOf(key)) >= 2
        /\ ttsObjCacheRef[key].url = MaxOf(UrlsOf(key))
        /\ \E r \in RunIds : runs[r].pc = "done" /\ runs[r].branch = "speak"

\* no url the playback refers to is revoked: neither the source of a sink that
\* is playing nor a url that waits in the queue
PlaybackUrlsLive ==
    /\ audio.state = "playing" => audio.src \notin revoked
    /\ \A k \in 1..Len(ttsQueueRef) : ttsQueueRef[k] \notin revoked
\* a step that revokes the url of synthesized audio is a step of newConversation
TtsRevokedOnlyByClear ==
    (\E u \in revoked' \ revoked : urls[u].kind = "tts") => messages' = <<>>

\* C25: no url is revoked while playback refers to it: the source of a playing
\* sink and the urls in the queue are not revoked; urls of synthesized audio
\* are revoked only by newConversation, the url of a merged clip only once the
\* sink no longer plays it.
C25_NoRevokeWhileReferenced == []PlaybackUrlsLive /\ [][TtsRevokedOnlyByClear]_vars

\* the frames before segment i in the merged buffer
OffsetOf(decoded, i) == totalLen(SubSeq(decoded, 1, i - 1))

\* C26: the merge of N segments of equal channel count and sample rate is one
\* buffer whose length is the sum of their lengths, in which the samples of
\* segment i lie, on every channel, from the sum of the lengths of the segments
\* before it on; the WAV has a 44-byte header and frames x channels x 2 bytes
\* of data.
C26_MergeConcatenates ==
    tables.pc = "return" =>
        LET d == tables.decoded
            out == tables.out
        IN /\ out.length = totalLen(d)
           /\ out.numberOfChannels = d[1].numberOfChannels
           /\ \A ch \in 1..out.numberOfChannels :
                 /\ Len(out.data[ch]) = out.length
                 /\ \A i \in 1..Len(d) : \A j \in 1..d[i].length :
                       out.data[ch][OffsetOf(d, i) + j] = d[i].data[ch][j]
           /\ Len(tables.wav.bytes) = 44 + out.length * out.numberOfChannels * 2
           /\ SubSeq(tables.wav.bytes, 37, 44)
                 = <<"d", "a", "t", "a">> \o u32(out.length * out.numberOfChannels * 2)
C26_Witness ==
    /\ tables.pc = "return"
    /\ Len(tables.decoded) = 3
    /\ tables.out.numberOfChannels = 2
    /\ tables.decoded[1].length = 2 /\ tables.decoded[2].length = 1
    /\ tables.decoded[3].data[2] = <<-1, 1>>
    /\ tables.out.length = 5
    /\ Len(tables.wav.bytes) = 64

\* normalize the whole answer, then segment, then group
NormalizeFirst(text) ==
    groupSentencesToChunks(splitIntoSentencesSmart(sanitizeForTTS(text)),
                           MaxChars, MinSent, MaxSent)

\* C27: the texts speak posts to the synthesis endpoint are the chunks of the
\* normalized answer: normalize, then segment, then group with the budget of
\* 400 characters.
C27_RequestsAreChunksOfNormalizedAnswer ==
    tables.pc = "return" => tables.sent = NormalizeFirst(tables.text)

\* the urls getTtsAudioObj created (line 1179) and nothing revoked
LiveTtsUrls == {u \in 1..Len(urls) : urls[u].kind = "tts" /\ u \notin revoked}

\* C28: every url created by getTtsAudioObj and not yet revoked is the url of
\* some entry of the cache, whatever the interleaving of concurrent calls.
C28_EveryLiveUrlIsCached ==
    \A u \in LiveTtsUrls : \E k \in DOMAIN ttsObjCacheRef : ttsObjCacheRef[k].url = u

\* the parts of a clip are one segment for each chunk of answer t
OnePerChunk(parts, t) ==
    /\ Len(parts) = Len(Chunks(t))
    /\ \A i \in 1..Len(Chunks(t)) :
          Cardinality({k \in 1..Len(parts) : parts[k].text = Safe(t, i)}) = 1

\* replay run r builds its clip and assigns it to the sink in this step
AssignsMergedClip(r) ==
    /\ runs[r].pc = "decode"
    /\ runs'[r].pc \in {"mplay", "done"}

\* C29: whenever replay assigns a merged clip to the sink, the clip was built
\* from exactly one segment per chunk of the answer replayed, also when the
\* speak run for the answer is still synthesizing later chunks.
C29_MergedClipCoversAnswer ==
    [][\A r \in RunIds :
          AssignsMergedClip(r) => /\ audio'.src = Len(urls')
                                  /\ OnePerChunk(urls'[Len(urls')].parts, runs[r].text)]_vars

\* nothing is left to happen without the user: no answer awaited, no
\* invocation of speakTextSmart suspended or scheduled, the sink not playing
SystemQuiet ==
    /\ pending = 0
    /\ \A r \in RunIds : runs[r].pc \in {"idle", "done", "failed"}
    /\ audio.state # "playing"

\* some invocation of speakTextSmart has ended, by completing or by failing
InvocationEnded == \E r \in RunIds : runs[r].pc \in {"done", "failed"}

\* C30: the status does not stay "Speaking..." or "Preparing..." forever: once
\* the invocations of speak and replay have ended (completed, failed on some
\* chunk, failed to merge) and nothing is left to happen without the user,
\* the status is not one of the two.
C30_StatusSettles ==
    (SystemQuiet /\ InvocationEnded) => status \notin {"Speaking...", "Preparing..."}

====
